---- MODULE Spec2Model ----
(***************************************************************************)
(* Analysis session of GoInsight (src/features/analysis.py, class          *)
(* Analizer): a session owns a game-record tree, sends requests to the     *)
(* KataGo analysis engine (the oracle), stores the shallow whole-game      *)
(* results in game_analysis and the deep per-turn results in               *)
(* turn_analysis, and reads them back from the protagonist's perspective.  *)
(*                                                                         *)
(* Encodings.  An optional value (Python None / a value) is a sequence of  *)
(* length 0 or 1: None is <<>> and a value x is <<x>>.  A winrate is an    *)
(* integer percentage, so that the literal 1 of "1 - winrate" is 100.      *)
(* A raised exception is the name of its class, "none" when the call       *)
(* returned.  A line of the oracle's standard output is a record that      *)
(* says whether the line is blank and what json.loads makes of it.         *)
(***************************************************************************)
EXTENDS Integers, Sequences, FiniteSets, TLC

VARIABLES
    constructed,    \* the caller holds an Analizer: __init__ has returned
    inflight,       \* the locals of a deep_turn_analysis in progress, or None
    sequence,       \* API1.sequence: the move sequence read at construction
    tree,           \* Analizer.tree: the game record (moves and set-up)
    player,         \* Analizer.player: the protagonist
    game_analysis,  \* Analizer.game_analysis: None or the sorted list
    turn_analysis,  \* Analizer.turn_analysis: dict turn -> oracle result
    analysed,       \* history: turns whose deep_turn_analysis returned
    call,           \* the last call: [op, turn, selection, invert_selection]
    raised,         \* the exception the last call raised, or "none"
    returned,       \* the value the last call returned (<<>> if none)
    json_input,     \* the request the last call sent (None for a read)
    process         \* the oracle's completed process of the last call

vars == <<constructed, inflight, sequence, tree, player, game_analysis, turn_analysis, analysed,
          call, raised, returned, json_input, process>>

----------------------------------------------------------------------------
(* Bounds and program constants *)

\* The longest game record, in moves.
MaxMoves == 2

\* The highest turn a deep analysis is asked for.
MaxTurn == 1

\* features/constants.py, imported at the top of analysis.py: the number of
\* candidates turn_advanced_data returns (the module's own example prints
\* three) and the longest principal variation it keeps.
MOVE_PROPOSITIONS_PER_TURN == 3

PV_MAX_LENGTH == 5

\* "untilDepth": turn + 10
LookAhead == 10

\* The 1 of "winrate = 1 - winrate", in percent.
WinrateOne == 100

None == <<>>

Some(x) == <<x>>

Colors == {"B", "W"}

----------------------------------------------------------------------------
(* The game record *)

Positions == <<"dd", "pp", "dp", "pd">>

MoveAt(i) == <<IF i % 2 = 1 THEN "B" ELSE "W", Positions[((i - 1) % 4) + 1]>>

TreeOf(n) ==
    [moves   |-> [i \in 1..n |-> MoveAt(i)],
     ruleset |-> "japanese",
     komi    |-> 6,
     size    |-> <<19, 19>>,
     AB      |-> None,
     AW      |-> None]

move_sequence(t) == t.moves

initial_stones(t) ==
    LET ab == IF t.AB = None THEN <<>> ELSE t.AB[1]
        aw == IF t.AW = None THEN <<>> ELSE t.AW[1]
    IN  [i \in 1..Len(ab) |-> <<"B", ab[i]>>] \o
        [i \in 1..Len(aw) |-> <<"W", aw[i]>>]

----------------------------------------------------------------------------
(* Python list helpers.  Python indexes from 0, TLA+ from 1. *)

Range0(n) == [i \in 1..n |-> i - 1]

Slice(s, n) == SubSeq(s, 1, IF Len(s) < n THEN Len(s) ELSE n)

SelectIdx(s, Test(_)) ==
    LET F[i \in 0..Len(s)] ==
            IF i = 0 THEN <<>>
            ELSE IF Test(s[i]) THEN Append(F[i - 1], s[i]) ELSE F[i - 1]
    IN  F[Len(s)]

PyIndexOK(s, i) == i < Len(s) /\ i >= -Len(s)

PyGet(s, i) == IF i >= 0 THEN s[i + 1] ELSE s[Len(s) + i + 1]

HasKey(obj, k) == k \in DOMAIN obj

----------------------------------------------------------------------------
(* The oracle.  KataGo answers an analysis request with one JSON line per  *)
(* requested turn, in no guaranteed order; a request it rejects is         *)
(* answered by an error object, which has no turnNumber and no moveInfos.  *)
(* The values below are the responses the model lets the oracle give.      *)

Candidate(m, o, w, sl, p, line) ==
    [move |-> m, order |-> o, winrate |-> w, scoreLead |-> sl,
     policy |-> p, pv |-> line]

RankedInfos ==
    << Candidate("D4", 0, 62, 5, 40, <<"D4", "C4", "E4", "F3", "F2", "G2">>),
       Candidate("Q16", 1, 58, 3, 30, <<"Q16", "R16", "P16">>),
       Candidate("C3", 2, 45, -1, 10, <<"C3">>) >>

UnrankedInfos ==
    << Candidate("Q4", 2, 30, -4, 5, <<"Q4", "R4">>),
       Candidate("D16", 0, 41, 7, 50,
                 <<"D16", "C16", "E16", "F17", "F18", "G18", "H18">>),
       Candidate("pass", 1, 38, 2, 20, <<"pass", "pass">>) >>

TurnResult(t, w, sl, cp, infos) ==
    [id         |-> "game_analysis",
     turnNumber |-> t,
     rootInfo   |-> [winrate |-> w, scoreLead |-> sl, currentPlayer |-> cp],
     moveInfos  |-> infos]

ErrorObject == [id |-> "game_analysis", error |-> "rejected"]

JsonLine(obj) == [blank |-> FALSE, json |-> Some(obj)]

BlankLine == [blank |-> TRUE, json |-> None]

GarbageLine == [blank |-> FALSE, json |-> None]

Completed(rc, out) == [returncode |-> rc, stdout |-> out]

\* One run of the oracle over a game answers turn t with one of the two
\* results, alternating along the game; the two runs differ in every turn.
RunResult(run, t) ==
    IF (t + run) % 2 = 0 THEN TurnResult(t, 60, 3, "B", RankedInfos)
    ELSE TurnResult(t, 35, -2, "W", UnrankedInfos)

\* Every arrangement, in any order, of the results of run 0 for a subset of
\* the turns S: at most one result per requested turn.
RECURSIVE Arrangements(_)
Arrangements(S) ==
    {<<>>} \cup
    UNION { { <<JsonLine(RunResult(0, t))>> \o rest :
                rest \in Arrangements(S \ {t}) } : t \in S }

SeqToSet(s) == { s[i] : i \in 1..Len(s) }

\* The complete answer of a run, in the order of the request.
Ascending(request, run) ==
    [i \in 1..Len(request.analyzeTurns) |->
        JsonLine(RunResult(run, request.analyzeTurns[i]))]

\* The answers that parse (the arrangements of run 0, the complete run 1, a
\* complete answer with a blank line) and four failures: a non-zero exit,
\* an unparsable line alone or after the results, an error object.
ShallowProcesses(request) ==
    { Completed(0, out) : out \in Arrangements(SeqToSet(request.analyzeTurns)) }
    \cup
    { Completed(0, Ascending(request, 1)),
      Completed(0, Append(Ascending(request, 0), BlankLine)),
      Completed(1, Ascending(request, 0)),
      Completed(0, <<GarbageLine>>),
      Completed(0, Append(Ascending(request, 0), GarbageLine)),
      Completed(0, <<JsonLine(ErrorObject)>>) }

\* Two answers that parse (the result of the turn, an error object) and
\* three failures: a non-zero exit, no result line, an unparsable line.
DeepProcesses(request) ==
    LET first == JsonLine(RunResult(0, request.analyzeTurns[1]))
    IN  { Completed(0, <<first>>),
          Completed(0, <<JsonLine(ErrorObject)>>),
          Completed(1, <<first>>),
          Completed(0, <<BlankLine>>),
          Completed(0, <<first, GarbageLine>>) }

----------------------------------------------------------------------------
(* Requests *)

BaseRequest(t, turns) ==
    [id            |-> "game_analysis",
     moves         |-> move_sequence(t),
     rules         |-> t.ruleset,
     komi          |-> t.komi,
     boardXSize    |-> t.size[1],
     boardYSize    |-> t.size[2],
     initialStones |-> initial_stones(t),
     analyzeTurns  |-> turns]

ShallowRequest(t) == BaseRequest(t, Range0(Len(move_sequence(t))))

\* Python's truth value of the optional list: None and [] are both false.
Truthy(selection) == selection # None /\ selection[1] # <<>>

selected_moves(t, turn, selection) ==
    << [player     |-> PyGet(move_sequence(t), turn)[1],
        moves      |-> selection[1],
        untilDepth |-> turn + LookAhead] >>

\* Mutant: the two branches of "if invert_selection" exchanged.
DeepRequestSwapped(t, turn, selection, invert_selection) ==
    LET base == BaseRequest(t, <<turn>>)
    IN  IF ~Truthy(selection) THEN base
        ELSE IF ~invert_selection
        THEN [id            |-> base.id,
              moves         |-> base.moves,
              rules         |-> base.rules,
              komi          |-> base.komi,
              boardXSize    |-> base.boardXSize,
              boardYSize    |-> base.boardYSize,
              initialStones |-> base.initialStones,
              analyzeTurns  |-> base.analyzeTurns,
              avoidMoves    |-> selected_moves(t, turn, selection)]
        ELSE [id            |-> base.id,
              moves         |-> base.moves,
              rules         |-> base.rules,
              komi          |-> base.komi,
              boardXSize    |-> base.boardXSize,
              boardYSize    |-> base.boardYSize,
              initialStones |-> base.initialStones,
              analyzeTurns  |-> base.analyzeTurns,
              allowMoves    |-> selected_moves(t, turn, selection)]

DeepRequest(t, turn, selection, invert_selection) ==
    LET base == BaseRequest(t, <<turn>>)
    IN  IF ~Truthy(selection) THEN base
        ELSE IF invert_selection
        THEN [id            |-> base.id,
              moves         |-> base.moves,
              rules         |-> base.rules,
              komi          |-> base.komi,
              boardXSize    |-> base.boardXSize,
              boardYSize    |-> base.boardYSize,
              initialStones |-> base.initialStones,
              analyzeTurns  |-> base.analyzeTurns,
              avoidMoves    |-> selected_moves(t, turn, selection)]
        ELSE [id            |-> base.id,
              moves         |-> base.moves,
              rules         |-> base.rules,
              komi          |-> base.komi,
              boardXSize    |-> base.boardXSize,
              boardYSize    |-> base.boardYSize,
              initialStones |-> base.initialStones,
              analyzeTurns  |-> base.analyzeTurns,
              allowMoves    |-> selected_moves(t, turn, selection)]

\* Building the request raises when moves_list[turn] does not exist.
DeepRequestRaised(t, turn, selection) ==
    IF Truthy(selection) /\ ~PyIndexOK(move_sequence(t), turn)
    THEN "IndexError" ELSE "none"

----------------------------------------------------------------------------
(* Reading the oracle's output *)

output_lines(proc) == SelectIdx(proc.stdout, LAMBDA line : ~line.blank)

output_data(proc) ==
    LET lines == output_lines(proc)
    IN  [i \in 1..Len(lines) |-> lines[i].json[1]]

\* subprocess.run(check=True), then json.loads of every non-blank line.
RunRaised(proc) ==
    IF proc.returncode # 0 THEN "CalledProcessError"
    ELSE IF \E i \in 1..Len(output_lines(proc)) : output_lines(proc)[i].json = None
    THEN "JSONDecodeError"
    ELSE "none"

\* sorted(output_data, key=turnNumber): a stable insertion sort.
RECURSIVE InsertByTurn(_, _)
InsertByTurn(x, s) ==
    IF s = <<>> THEN <<x>>
    ELSE IF s[Len(s)].turnNumber <= x.turnNumber THEN Append(s, x)
    ELSE Append(InsertByTurn(x, SubSeq(s, 1, Len(s) - 1)), s[Len(s)])

\* Mutant: the output stored in the order the oracle emitted it.
unsorted_output_data(data) == data

RECURSIVE sorted_output_data(_)
sorted_output_data(data) ==
    IF data = <<>> THEN <<>>
    ELSE InsertByTurn(data[Len(data)],
                      sorted_output_data(SubSeq(data, 1, Len(data) - 1)))

ShallowRaised(proc) ==
    IF RunRaised(proc) # "none" THEN RunRaised(proc)
    ELSE IF \E i \in 1..Len(output_data(proc)) :
                ~HasKey(output_data(proc)[i], "turnNumber")
    THEN "KeyError"
    ELSE "none"

DeepRaised(t, turn, selection, proc) ==
    IF DeepRequestRaised(t, turn, selection) # "none"
    THEN DeepRequestRaised(t, turn, selection)
    ELSE IF RunRaised(proc) # "none" THEN RunRaised(proc)
    ELSE IF output_data(proc) = <<>> THEN "IndexError"
    ELSE "none"

\* Mutant: the lines that parsed are published although the call raised.
ShallowStoredPartial(ga, proc) ==
    LET parsed == SelectIdx(proc.stdout,
                      LAMBDA line : /\ ~line.blank
                                    /\ line.json # None
                                    /\ HasKey(line.json[1], "turnNumber"))
    IN  Some(sorted_output_data([i \in 1..Len(parsed) |-> parsed[i].json[1]]))

\* self.game_analysis = sorted_output_data, reached only when nothing raised.
ShallowStored(ga, proc) ==
    IF ShallowRaised(proc) = "none"
    THEN Some(sorted_output_data(output_data(proc)))
    ELSE ga

\* Mutant: the store rebuilt around the new entry, the other turns lost.
DeepStoredOnly(ta, t, turn, selection, proc) ==
    IF DeepRaised(t, turn, selection, proc) = "none"
    THEN [k \in {turn} |-> output_data(proc)[1]]
    ELSE ta

\* Mutant: the entry of the turn dropped before the oracle runs.
DeepStoredCleared(ta, t, turn, selection, proc) ==
    IF DeepRaised(t, turn, selection, proc) = "none"
    THEN [k \in DOMAIN ta \cup {turn} |->
            IF k = turn THEN output_data(proc)[1] ELSE ta[k]]
    ELSE [k \in DOMAIN ta \ {turn} |-> ta[k]]

\* self.turn_analysis[turn] = output_data[0], reached only when nothing raised.
DeepStored(ta, t, turn, selection, proc) ==
    IF DeepRaised(t, turn, selection, proc) = "none"
    THEN [k \in DOMAIN ta \cup {turn} |->
            IF k = turn THEN output_data(proc)[1] ELSE ta[k]]
    ELSE ta

----------------------------------------------------------------------------
(* Reads *)

GameScoreLeadRaised(ga) == IF ga = None THEN "ValueError" ELSE "none"

\* Mutant: the series taken from game_analysis[1:].
GameScoreLeadValueTail(ga) ==
    [i \in 1..(Len(ga[1]) - 1) |-> ga[1][i + 1].rootInfo.scoreLead]

GameScoreLeadValue(ga) ==
    [i \in 1..Len(ga[1]) |-> ga[1][i].rootInfo.scoreLead]

\* Mutant: "turn > len" for "turn >= len".
BasicRaisedStrict(ga, turn) ==
    IF ga = None THEN "TypeError"
    ELSE IF turn > Len(ga[1]) THEN "ValueError"
    ELSE IF ~PyIndexOK(ga[1], turn) THEN "IndexError"
    ELSE IF SelectIdx(PyGet(ga[1], turn).moveInfos,
                      LAMBDA move : move.order = 0) = <<>>
    THEN "IndexError"
    ELSE "none"

\* len(None) is a TypeError; a turn below -len is an IndexError; a turn
\* without an order-0 candidate is an IndexError ([...][0] of an empty list).
BasicRaised(ga, turn) ==
    IF ga = None THEN "TypeError"
    ELSE IF turn >= Len(ga[1]) THEN "ValueError"
    ELSE IF ~PyIndexOK(ga[1], turn) THEN "IndexError"
    ELSE IF SelectIdx(PyGet(ga[1], turn).moveInfos,
                      LAMBDA move : move.order = 0) = <<>>
    THEN "IndexError"
    ELSE "none"

\* Mutant: the best move's score lead left in the oracle's perspective.
BasicValueBestUnflipped(pl, ga, turn) ==
    LET entry       == PyGet(ga[1], turn)
        winrate     == entry.rootInfo.winrate
        score_lead  == entry.rootInfo.scoreLead
        best        == SelectIdx(entry.moveInfos, LAMBDA move : move.order = 0)[1]
        next_player == IF entry.rootInfo.currentPlayer = "B" THEN "W" ELSE "B"
    IN  IF pl = "W"
        THEN <<WinrateOne - winrate, -score_lead, best.move, best.scoreLead,
               next_player>>
        ELSE <<winrate, score_lead, best.move, best.scoreLead, next_player>>

\* Mutant: the first listed candidate taken for the best move.
BasicValueFirstListed(pl, ga, turn) ==
    LET entry       == PyGet(ga[1], turn)
        winrate     == entry.rootInfo.winrate
        score_lead  == entry.rootInfo.scoreLead
        best        == entry.moveInfos[1]
        next_player == IF entry.rootInfo.currentPlayer = "B" THEN "W" ELSE "B"
    IN  IF pl = "W"
        THEN <<WinrateOne - winrate, -score_lead, best.move, -best.scoreLead,
               next_player>>
        ELSE <<winrate, score_lead, best.move, best.scoreLead, next_player>>

BasicValue(pl, ga, turn) ==
    LET entry       == PyGet(ga[1], turn)
        winrate     == entry.rootInfo.winrate
        score_lead  == entry.rootInfo.scoreLead
        best        == SelectIdx(entry.moveInfos, LAMBDA move : move.order = 0)[1]
        next_player == IF entry.rootInfo.currentPlayer = "B" THEN "W" ELSE "B"
    IN  IF pl = "W"
        THEN <<WinrateOne - winrate, -score_lead, best.move, -best.scoreLead,
               next_player>>
        ELSE <<winrate, score_lead, best.move, best.scoreLead, next_player>>

\* Mutant: the guard tests that some turn is analysed, not this one.
AdvancedRaisedAnyTurn(ta, turn) ==
    IF DOMAIN ta = {} THEN "ValueError"
    ELSE IF turn \notin DOMAIN ta THEN "KeyError"
    ELSE IF ~HasKey(ta[turn], "moveInfos") THEN "KeyError"
    ELSE IF Len(ta[turn].moveInfos) < MOVE_PROPOSITIONS_PER_TURN THEN "IndexError"
    ELSE "none"

AdvancedRaised(ta, turn) ==
    IF turn \notin DOMAIN ta THEN "ValueError"
    ELSE IF ~HasKey(ta[turn], "moveInfos") THEN "KeyError"
    ELSE IF Len(ta[turn].moveInfos) < MOVE_PROPOSITIONS_PER_TURN THEN "IndexError"
    ELSE "none"

\* Mutant: only the first candidate converted to the protagonist.
AdvancedValueFirstOnly(pl, ta, turn) ==
    LET infos == ta[turn].moveInfos
    IN  [i \in 1..MOVE_PROPOSITIONS_PER_TURN |->
            [move              |-> infos[i].move,
             scoreLead         |-> IF pl = "W" /\ i = 1 THEN -infos[i].scoreLead
                                   ELSE infos[i].scoreLead,
             possibleVariation |-> Slice(infos[i].pv, PV_MAX_LENGTH)]]

AdvancedValue(pl, ta, turn) ==
    LET infos == ta[turn].moveInfos
    IN  [i \in 1..MOVE_PROPOSITIONS_PER_TURN |->
            [move              |-> infos[i].move,
             scoreLead         |-> IF pl = "W" THEN -infos[i].scoreLead
                                   ELSE infos[i].scoreLead,
             possibleVariation |-> Slice(infos[i].pv, PV_MAX_LENGTH)]]

----------------------------------------------------------------------------
(* The session *)

Called(op, args) == [op |-> op, args |-> args]

Init ==
    /\ constructed = TRUE
    /\ inflight = None
    /\ tree \in { TreeOf(n) : n \in 0..MaxMoves }
    /\ sequence = move_sequence(tree)
    /\ player \in Colors
    /\ game_analysis = None
    /\ turn_analysis = << >>
    /\ analysed = {}
    /\ call = Called("__init__", <<>>)
    /\ raised = "none"
    /\ returned = None
    /\ json_input = None
    /\ process = None

\* Mutant: a shallow re-run that resets the deep-result store.
shalow_game_analysis_resetting(proc) ==
    /\ call' = Called("shalow_game_analysis", <<>>)
    /\ json_input' = Some(ShallowRequest(tree))
    /\ process' = Some(proc)
    /\ raised' = ShallowRaised(proc)
    /\ returned' = None
    /\ game_analysis' = ShallowStored(game_analysis, proc)
    /\ turn_analysis' = IF ShallowRaised(proc) = "none" THEN << >>
                        ELSE turn_analysis
    /\ UNCHANGED <<constructed, inflight, sequence, tree, player, analysed>>

shalow_game_analysis(proc) ==
    /\ call' = Called("shalow_game_analysis", <<>>)
    /\ json_input' = Some(ShallowRequest(tree))
    /\ process' = Some(proc)
    /\ raised' = ShallowRaised(proc)
    /\ returned' = None
    /\ game_analysis' = ShallowStored(game_analysis, proc)
    /\ UNCHANGED <<constructed, inflight, sequence, tree, player, turn_analysis, analysed>>

deep_turn_analysis(turn, selection, invert_selection, proc) ==
    LET sent == DeepRequestRaised(tree, turn, selection) = "none"
        exc  == DeepRaised(tree, turn, selection, proc)
    IN  /\ call' = Called("deep_turn_analysis", <<turn, selection, invert_selection>>)
        /\ json_input' = IF sent
                         THEN Some(DeepRequest(tree, turn, selection, invert_selection))
                         ELSE None
        /\ process' = IF sent THEN Some(proc) ELSE None
        /\ raised' = exc
        /\ returned' = None
        /\ turn_analysis' = DeepStored(turn_analysis, tree, turn, selection, proc)
        /\ analysed' = IF exc = "none" THEN analysed \cup {turn} ELSE analysed
        /\ UNCHANGED <<constructed, inflight, sequence, tree, player, game_analysis>>

game_score_lead ==
    /\ call' = Called("game_score_lead", <<>>)
    /\ json_input' = None
    /\ process' = None
    /\ raised' = GameScoreLeadRaised(game_analysis)
    /\ returned' = IF GameScoreLeadRaised(game_analysis) = "none"
                   THEN Some(GameScoreLeadValue(game_analysis)) ELSE None
    /\ UNCHANGED <<constructed, inflight, sequence, tree, player, game_analysis, turn_analysis, analysed>>

turn_basic_data(turn) ==
    /\ call' = Called("turn_basic_data", <<turn>>)
    /\ json_input' = None
    /\ process' = None
    /\ raised' = BasicRaised(game_analysis, turn)
    /\ returned' = IF BasicRaised(game_analysis, turn) = "none"
                   THEN Some(BasicValue(player, game_analysis, turn)) ELSE None
    /\ UNCHANGED <<constructed, inflight, sequence, tree, player, game_analysis, turn_analysis, analysed>>

turn_advanced_data(turn) ==
    /\ call' = Called("turn_advanced_data", <<turn>>)
    /\ json_input' = None
    /\ process' = None
    /\ raised' = AdvancedRaised(turn_analysis, turn)
    /\ returned' = IF AdvancedRaised(turn_analysis, turn) = "none"
                   THEN Some(AdvancedValue(player, turn_analysis, turn)) ELSE None
    /\ UNCHANGED <<constructed, inflight, sequence, tree, player, game_analysis, turn_analysis, analysed>>

\* Arguments the callers pass.
DeepTurns == 0..MaxTurn

ReadTurns == -1..MaxMoves

Next ==
    \/ \E proc \in ShallowProcesses(ShallowRequest(tree)) :
          shalow_game_analysis(proc)
    \/ \E turn \in DeepTurns :
       \E proc \in DeepProcesses(BaseRequest(tree, <<turn>>)) :
          deep_turn_analysis(turn, None, FALSE, proc)
    \/ game_score_lead
    \/ \E turn \in ReadTurns : turn_basic_data(turn)
    \/ \E turn \in DeepTurns : turn_advanced_data(turn)

Spec == Init /\ [][Next]_vars

\* The request-building specification: deep_turn_analysis alone, over every
\* shape of selection, with an oracle that answers or exits non-zero.
RequestSelections ==
    { None, Some(<<>>), Some(<<"D4">>), Some(<<"D4", "Q16", "pass">>) }

RequestProcesses(request) ==
    { Completed(0, <<JsonLine(RunResult(0, request.analyzeTurns[1]))>>),
      Completed(1, <<>>) }

NextRequest ==
    \E turn \in DeepTurns, selection \in RequestSelections,
       invert_selection \in BOOLEAN :
    \E proc \in RequestProcesses(BaseRequest(tree, <<turn>>)) :
       deep_turn_analysis(turn, selection, invert_selection, proc)

SpecRequest == Init /\ [][NextRequest]_vars

\* The statement-level specification: one deep_turn_analysis runs as three
\* steps (the request is built, the oracle's output is received and parsed,
\* the entry is assigned) and turn_advanced_data reads between them.
Flight(turn, selection, invert_selection, proc) ==
    [turn |-> turn, selection |-> selection,
     invert_selection |-> invert_selection, process |-> proc]

\* Mutant: a placeholder entry assigned before the oracle runs.
InFlightStoredEarly(ta, stage, t, turn, selection, proc) ==
    IF stage = "publish"
    THEN DeepStored(ta, t, turn, selection, proc[1])
    ELSE [k \in DOMAIN ta \cup {turn} |->
            IF k = turn THEN [id |-> "pending", moveInfos |-> <<>>] ELSE ta[k]]

\* self.turn_analysis after each step: the only assignment is the last
\* statement of deep_turn_analysis.
InFlightStored(ta, stage, t, turn, selection, proc) ==
    IF stage = "publish"
    THEN DeepStored(ta, t, turn, selection, proc[1])
    ELSE ta

deep_begin(turn, selection, invert_selection) ==
    /\ inflight = None
    /\ turn_analysis' =
          InFlightStored(turn_analysis, "begin", tree, turn, selection, None)
    /\ IF DeepRequestRaised(tree, turn, selection) = "none"
       THEN /\ inflight' = Some(Flight(turn, selection, invert_selection, None))
            /\ UNCHANGED <<call, raised, returned, json_input, process>>
       ELSE /\ call' = Called("deep_turn_analysis",
                              <<turn, selection, invert_selection>>)
            /\ raised' = DeepRequestRaised(tree, turn, selection)
            /\ returned' = None
            /\ json_input' = None
            /\ process' = None
            /\ UNCHANGED inflight
    /\ UNCHANGED <<constructed, sequence, tree, player, game_analysis, analysed>>

deep_receive(proc) ==
    /\ inflight # None
    /\ inflight[1].process = None
    /\ LET f == inflight[1]
       IN  /\ turn_analysis' =
                 InFlightStored(turn_analysis, "receive", tree, f.turn,
                                f.selection, Some(proc))
           /\ IF DeepRaised(tree, f.turn, f.selection, proc) = "none"
              THEN /\ inflight' = Some([f EXCEPT !.process = Some(proc)])
                   /\ UNCHANGED <<call, raised, returned, json_input, process>>
              ELSE /\ inflight' = None
                   /\ call' = Called("deep_turn_analysis",
                                     <<f.turn, f.selection, f.invert_selection>>)
                   /\ raised' = DeepRaised(tree, f.turn, f.selection, proc)
                   /\ returned' = None
                   /\ json_input' = Some(DeepRequest(tree, f.turn, f.selection,
                                                     f.invert_selection))
                   /\ process' = Some(proc)
    /\ UNCHANGED <<constructed, sequence, tree, player, game_analysis, analysed>>

deep_publish ==
    /\ inflight # None
    /\ inflight[1].process # None
    /\ LET f == inflight[1]
       IN  /\ turn_analysis' =
                 InFlightStored(turn_analysis, "publish", tree, f.turn,
                                f.selection, f.process)
           /\ call' = Called("deep_turn_analysis",
                             <<f.turn, f.selection, f.invert_selection>>)
           /\ raised' = "none"
           /\ returned' = None
           /\ json_input' = Some(DeepRequest(tree, f.turn, f.selection,
                                             f.invert_selection))
           /\ process' = f.process
           /\ analysed' = analysed \cup {f.turn}
    /\ inflight' = None
    /\ UNCHANGED <<constructed, sequence, tree, player, game_analysis>>

NextSteps ==
    \/ \E turn \in DeepTurns : deep_begin(turn, None, FALSE)
    \/ /\ inflight # None
       /\ \E proc \in DeepProcesses(BaseRequest(tree, <<inflight[1].turn>>)) :
             deep_receive(proc)
    \/ deep_publish
    \/ \E turn \in DeepTurns : turn_advanced_data(turn)

SpecSteps == Init /\ [][NextSteps]_vars

\* The API classes. Evaluator.classify_game, Game.from_sgftree and
\* SgfTree.from_game are not part of the sources at hand: classify_game
\* returns one classification per shallow result or fails, and from_game
\* builds the tree of the game it is given or fails.
ClassifyOutcomes == { "none", "ValueError" }

FromGameOutcomes == { "none", "TypeError" }

\* API.all_moves_analysis: res = {"turnData": Dict()} instantiates
\* typing.Dict, which raises TypeError before the analysis is run.
API_all_moves_analysis ==
    /\ call' = Called("API.all_moves_analysis", <<>>)
    /\ raised' = "TypeError"
    /\ returned' = None
    /\ json_input' = None
    /\ process' = None
    /\ UNCHANGED <<constructed, inflight, sequence, tree, player, game_analysis,
                   turn_analysis, analysed>>

\* game.moves = current_sequence.append(...), the value of list.append.
possible_sequence == None

\* SgfTree.from_game(game) for the game of self.tree with game.moves set.
from_game(t, moves) ==
    [t EXCEPT !.moves = IF moves = None THEN << >> ELSE moves[1]]

\* The first turn index at which the loop's turn_basic_data raises; each
\* iteration i reads turn i and then turn i + 1.
FirstFailingRead(ga, n) ==
    IF \E i \in 0..n : BasicRaised(ga, i) # "none"
    THEN Some(CHOOSE i \in 0..n :
                 /\ BasicRaised(ga, i) # "none"
                 /\ \A j \in 0..(i - 1) : BasicRaised(ga, j) = "none")
    ELSE None

API1Raised(ga, n, classify_exc, from_game_exc) ==
    IF classify_exc # "none" THEN classify_exc
    ELSE IF n = 0 THEN "UnboundLocalError"
    ELSE IF BasicRaised(ga, 0) # "none" THEN BasicRaised(ga, 0)
    ELSE IF from_game_exc # "none" THEN from_game_exc
    ELSE IF FirstFailingRead(ga, n) # None
         THEN BasicRaised(ga, FirstFailingRead(ga, n)[1])
    ELSE "none"

\* copy_analizer is self.analizer, so copy_analizer.tree = possible_tree
\* assigns the session's tree once the first iteration reaches line 46.
API1Tree(t, ga, n, classify_exc, from_game_exc) ==
    IF /\ classify_exc = "none"
       /\ n > 0
       /\ BasicRaised(ga, 0) = "none"
       /\ from_game_exc = "none"
    THEN from_game(t, possible_sequence)
    ELSE t

API1_all_moves_analysis(classify_exc, from_game_exc) ==
    LET n   == Len(sequence)
        exc == API1Raised(game_analysis, n, classify_exc, from_game_exc)
    IN  /\ call' = Called("API1.all_moves_analysis", <<>>)
        /\ raised' = exc
        /\ returned' = IF exc = "none"
                       THEN Some(GameScoreLeadValue(game_analysis)) ELSE None
        /\ json_input' = None
        /\ process' = None
        /\ tree' = API1Tree(tree, game_analysis, n, classify_exc, from_game_exc)
        /\ UNCHANGED <<constructed, inflight, sequence, player, game_analysis,
                       turn_analysis, analysed>>

\* Board geometry. Board.area_selection_positions is not part of the
\* sources at hand: the two corners are normalised to an inclusive rectangle
\* whose coordinates are listed row-major, ascending, in notation; columns
\* are lettered without "I" and rows are numbered from the bottom edge.
VALID_COLUMN_GTP ==
    <<"A", "B", "C", "D", "E", "F", "G", "H", "J", "K", "L", "M", "N", "O",
      "P", "Q", "R", "S", "T", "U", "V", "W", "X", "Y", "Z">>

coordinate_to_notation(size, row, col) ==
    VALID_COLUMN_GTP[col + 1] \o ToString(size[1] - row)

Min(a, b) == IF a <= b THEN a ELSE b

Max(a, b) == IF a >= b THEN a ELSE b

area_selection_positions(size, corner1, corner2) ==
    LET top    == Min(corner1[1], corner2[1])
        bottom == Max(corner1[1], corner2[1])
        left   == Min(corner1[2], corner2[2])
        right  == Max(corner1[2], corner2[2])
        width  == right - left + 1
    IN  [k \in 1..((bottom - top + 1) * width) |->
            coordinate_to_notation(size, top + ((k - 1) \div width),
                                   left + ((k - 1) % width))]

\* selection of deep_turn_area_analysis: the area when both corners are given.
AreaSelection(t, corner1, corner2) ==
    IF corner1 # None /\ corner2 # None
    THEN Some(area_selection_positions(t.size, corner1[1], corner2[1]))
    ELSE None

\* API.deep_turn_area_analysis: deep_turn_analysis with the area as the
\* selection, then turn_advanced_data of the turn, returned as it is.
API_deep_turn_area_analysis(turn, corner1, corner2, invert_selection, proc) ==
    LET selection == AreaSelection(tree, corner1, corner2)
        sent      == DeepRequestRaised(tree, turn, selection) = "none"
        exc       == DeepRaised(tree, turn, selection, proc)
        stored    == DeepStored(turn_analysis, tree, turn, selection, proc)
    IN  /\ call' = Called("API.deep_turn_area_analysis",
                          <<turn, corner1, corner2, invert_selection>>)
        /\ json_input' = IF sent
                         THEN Some(DeepRequest(tree, turn, selection, invert_selection))
                         ELSE None
        /\ process' = IF sent THEN Some(proc) ELSE None
        /\ turn_analysis' = stored
        /\ analysed' = IF exc = "none" THEN analysed \cup {turn} ELSE analysed
        /\ raised' = IF exc # "none" THEN exc ELSE AdvancedRaised(stored, turn)
        /\ returned' = IF exc = "none" /\ AdvancedRaised(stored, turn) = "none"
                       THEN Some(AdvancedValue(player, stored, turn)) ELSE None
        /\ UNCHANGED <<constructed, inflight, sequence, tree, player,
                       game_analysis>>

\* API2.deep_turn_area_analysis after deep_turn_analysis returned: the entry
\* of the turn is a dict, so an empty one gives best_moves [] and any other
\* raises KeyError at analysis_entries[-1], before the moves are filtered.
API2Raised(entry) == IF DOMAIN entry = {} THEN "none" ELSE "KeyError"

API2_deep_turn_area_analysis(turn, corner1, corner2, invert_selection, proc) ==
    LET selection == AreaSelection(tree, corner1, corner2)
        sent      == DeepRequestRaised(tree, turn, selection) = "none"
        exc       == DeepRaised(tree, turn, selection, proc)
        stored    == DeepStored(turn_analysis, tree, turn, selection, proc)
    IN  /\ call' = Called("API2.deep_turn_area_analysis",
                          <<turn, corner1, corner2, invert_selection>>)
        /\ json_input' = IF sent
                         THEN Some(DeepRequest(tree, turn, selection, invert_selection))
                         ELSE None
        /\ process' = IF sent THEN Some(proc) ELSE None
        /\ turn_analysis' = stored
        /\ analysed' = IF exc = "none" THEN analysed \cup {turn} ELSE analysed
        /\ raised' = IF exc # "none" THEN exc ELSE API2Raised(stored[turn])
        /\ returned' = IF exc = "none" /\ API2Raised(stored[turn]) = "none"
                       THEN Some(<<>>) ELSE None
        /\ UNCHANGED <<constructed, inflight, sequence, tree, player,
                       game_analysis>>

\* Corners the client sends: none, or a point of the lower-left corner area.
AreaCorners == { None, Some(<<15, 3>>), Some(<<16, 2>>) }

NextArea ==
    \/ \E turn \in DeepTurns, corner1 \in AreaCorners, corner2 \in AreaCorners,
          invert_selection \in BOOLEAN :
       \E proc \in RequestProcesses(BaseRequest(tree, <<turn>>)) :
          API_deep_turn_area_analysis(turn, corner1, corner2, invert_selection, proc)
    \/ \E turn \in DeepTurns, corner1 \in AreaCorners, corner2 \in AreaCorners,
          invert_selection \in BOOLEAN :
       \E proc \in RequestProcesses(BaseRequest(tree, <<turn>>)) :
          API2_deep_turn_area_analysis(turn, corner1, corner2, invert_selection, proc)

SpecArea == Init /\ [][NextArea]_vars

NextAPI ==
    \/ Next
    \/ API_all_moves_analysis
    \/ \E classify_exc \in ClassifyOutcomes, from_game_exc \in FromGameOutcomes :
          API1_all_moves_analysis(classify_exc, from_game_exc)

SpecAPI == Init /\ [][NextAPI]_vars

\* The construction specification: the caller starts without a session and
\* calls Analizer(file, player) until one is returned, then uses it.
InitPlayers == { "B", "W", "b", "" }

\* Mutant: no test of player.
InitRaisedNever(pl) == "none"

InitRaised(pl) ==
    IF pl # "B" /\ pl # "W" THEN "ValueError" ELSE "none"

InitConstruct ==
    /\ constructed = FALSE
    /\ inflight = None
    /\ sequence = << >>
    /\ tree = None
    /\ player = None
    /\ game_analysis = None
    /\ turn_analysis = << >>
    /\ analysed = {}
    /\ call = Called("none", <<>>)
    /\ raised = "none"
    /\ returned = None
    /\ json_input = None
    /\ process = None

Analizer_init(n, pl) ==
    /\ ~constructed
    /\ call' = Called("__init__", <<n, pl>>)
    /\ raised' = InitRaised(pl)
    /\ IF InitRaised(pl) = "none"
       THEN /\ constructed' = TRUE
            /\ tree' = TreeOf(n)
            /\ sequence' = move_sequence(TreeOf(n))
            /\ player' = pl
            /\ game_analysis' = None
            /\ turn_analysis' = << >>
       ELSE UNCHANGED <<constructed, sequence, tree, player, game_analysis,
                        turn_analysis>>
    /\ UNCHANGED <<inflight, analysed, returned, json_input, process>>

NextConstruct ==
    \/ \E n \in 0..MaxMoves, pl \in InitPlayers : Analizer_init(n, pl)
    \/ constructed /\ Next

SpecConstruct == InitConstruct /\ [][NextConstruct]_vars

----------------------------------------------------------------------------
(* Properties *)

Other(pl) == IF pl = "B" THEN "W" ELSE "B"

\* C1: a successful deep_turn_analysis(t) leaves the deep-result store with
\* the entry for t equal to the first object of that call's output, whatever
\* was stored for t before, and with every other turn's entry as it was.
C1_DeepReplacesOnlyItsTurn ==
    [][ (call'.op = "deep_turn_analysis" /\ raised' = "none") =>
        LET t      == call'.args[1]
            result == output_data(process'[1])[1]
        IN  /\ DOMAIN turn_analysis' = DOMAIN turn_analysis \cup {t}
            /\ turn_analysis'[t] = result
            /\ \A k \in DOMAIN turn_analysis \ {t} :
                   turn_analysis'[k] = turn_analysis[k] ]_vars

C1_Witness ==
    /\ call.op = "deep_turn_analysis" /\ raised = "none"
    /\ \E k \in DOMAIN turn_analysis :
          /\ k # call.args[1]
          /\ turn_analysis[k] # turn_analysis[call.args[1]]
    /\ HasKey(turn_analysis[call.args[1]], "moveInfos")

\* C2: a deep_turn_analysis(t) that raises (non-zero exit, unparsable line,
\* no result line) leaves the shallow collection and every deep entry,
\* the one for t included, as they were.
C2_FailedDeepChangesNothing ==
    [][ (call'.op = "deep_turn_analysis" /\ raised' # "none") =>
        /\ game_analysis' = game_analysis
        /\ turn_analysis' = turn_analysis ]_vars

C2_Witness ==
    /\ call.op = "deep_turn_analysis"
    /\ raised \in {"CalledProcessError", "JSONDecodeError", "IndexError"}
    /\ call.args[1] \in DOMAIN turn_analysis
    /\ game_analysis # None

\* C3: a shalow_game_analysis that raises (non-zero exit, unparsable line)
\* publishes nothing: the shallow collection and the deep store are as they
\* were before the call.
C3_FailedShallowPublishesNothing ==
    [][ (call'.op = "shalow_game_analysis" /\ raised' # "none") =>
        /\ game_analysis' = game_analysis
        /\ turn_analysis' = turn_analysis ]_vars

C3_Witness ==
    /\ call.op = "shalow_game_analysis"
    /\ raised = "JSONDecodeError"
    /\ Len(process[1].stdout) > 1
    /\ game_analysis # None
    /\ game_analysis[1] # <<>>

IsPermutation(s, t) ==
    /\ Len(s) = Len(t)
    /\ \E f \in [1..Len(s) -> 1..Len(s)] :
          /\ \A i, j \in 1..Len(s) : i # j => f[i] # f[j]
          /\ \A i \in 1..Len(s) : s[i] = t[f[i]]

\* C4: whenever the shallow collection is set its entries are in ascending
\* turnNumber order, and a successful shalow_game_analysis makes the
\* collection exactly the objects of the new response, nothing else.
C4_ShallowSortedAndReplaced ==
    /\ [](game_analysis # None =>
            \A i, j \in 1..Len(game_analysis[1]) :
                i < j => game_analysis[1][i].turnNumber
                            < game_analysis[1][j].turnNumber)
    /\ [][ (call'.op = "shalow_game_analysis" /\ raised' = "none") =>
            /\ game_analysis' # None
            /\ IsPermutation(game_analysis'[1], output_data(process'[1])) ]_vars

C4_Witness ==
    /\ call.op = "shalow_game_analysis" /\ raised = "none"
    /\ Len(game_analysis[1]) >= 2
    /\ output_data(process[1])[1].turnNumber > output_data(process[1])[2].turnNumber

\* C5: turn_advanced_data(t) raises the not-analysed ValueError exactly when
\* no deep_turn_analysis(t) has returned so far, and changes no store.
C5_AdvancedNeedsDeepOfThatTurn ==
    [][ call'.op = "turn_advanced_data" =>
        /\ (raised' = "ValueError") <=> (call'.args[1] \notin analysed')
        /\ UNCHANGED <<tree, player, game_analysis, turn_analysis>> ]_vars

C5_Witness ==
    /\ call.op = "turn_advanced_data"
    /\ raised = "ValueError"
    /\ analysed # {}
    /\ game_analysis # None

\* C6: once a shallow pass has succeeded, turn_basic_data(turn) with turn at
\* or beyond the length of the move sequence raises the out-of-range
\* ValueError, data is returned only for a turn below that length, and the
\* call changes no store.
C6_BasicRangeError ==
    [][ (call'.op = "turn_basic_data" /\ game_analysis # None) =>
        LET turn == call'.args[1]
            n    == Len(move_sequence(tree))
        IN  /\ turn >= n => raised' = "ValueError"
            /\ raised' = "none" => turn < n
            /\ UNCHANGED <<tree, player, game_analysis, turn_analysis>> ]_vars

C6_Witness ==
    /\ call.op = "turn_basic_data"
    /\ game_analysis # None
    /\ Len(game_analysis[1]) = Len(move_sequence(tree))
    /\ call.args[1] = Len(game_analysis[1])
    /\ call.args[1] > 0
    /\ raised = "ValueError"

\* C7: before any shallow pass has succeeded, turn_basic_data and
\* game_score_lead both raise the ValueError the session uses for an
\* invalid turn.
C7_NotAnalysedIsValueError ==
    (game_analysis = None /\ call.op \in {"turn_basic_data", "game_score_lead"})
        => raised = "ValueError"

\* C8: for the stored shallow result of a turn, the values turn_basic_data
\* returns to protagonist W are 1 - winrate, -scoreLead and
\* -bestMoveScoreLead of those it returns to protagonist B, with the same
\* best move and next player.
C8_BasicPerspective ==
    (call.op = "turn_basic_data" /\ raised = "none") =>
        LET mine   == returned[1]
            theirs == BasicValue(Other(player), game_analysis, call.args[1])
            b      == IF player = "B" THEN mine ELSE theirs
            w      == IF player = "W" THEN mine ELSE theirs
        IN  /\ w[1] = WinrateOne - b[1]
            /\ w[2] = -b[2]
            /\ w[3] = b[3]
            /\ w[4] = -b[4]
            /\ w[5] = b[5]

C8_Witness ==
    /\ call.op = "turn_basic_data" /\ raised = "none"
    /\ player = "W"
    /\ returned[1][2] # 0 /\ returned[1][4] # 0
    /\ returned[1][1] # WinrateOne - returned[1][1]

\* C9: for the stored deep entry of a turn, every candidate that
\* turn_advanced_data returns to protagonist W has the move and principal
\* variation of the candidate at the same position returned to protagonist
\* B, and the negated scoreLead.
C9_AdvancedPerspective ==
    (call.op = "turn_advanced_data" /\ raised = "none") =>
        LET mine   == returned[1]
            theirs == AdvancedValue(Other(player), turn_analysis, call.args[1])
            b      == IF player = "B" THEN mine ELSE theirs
            w      == IF player = "W" THEN mine ELSE theirs
        IN  /\ Len(w) = Len(b)
            /\ \A i \in 1..Len(b) :
                  /\ w[i].move = b[i].move
                  /\ w[i].possibleVariation = b[i].possibleVariation
                  /\ w[i].scoreLead = -b[i].scoreLead

C9_Witness ==
    /\ call.op = "turn_advanced_data" /\ raised = "none"
    /\ player = "W"
    /\ Len(returned[1]) >= 2
    /\ \A i \in 1..Len(returned[1]) : returned[1][i].scoreLead # 0

Constraint(request, turn, selection, key) ==
    /\ Len(request[key]) = 1
    /\ request[key][1].moves = selection[1]
    /\ request[key][1].untilDepth = turn + LookAhead

\* C10 as stated: the request asks for the one turn; given a selection it
\* carries allowMoves alone (invert false) or avoidMoves alone (invert
\* true), a single object with the selection and untilDepth turn + 10;
\* given no selection it carries neither.
C10_RequestAsStated ==
    (call.op = "deep_turn_analysis" /\ json_input # None) =>
        LET request   == json_input[1]
            turn      == call.args[1]
            selection == call.args[2]
            invert    == call.args[3]
        IN  /\ request.analyzeTurns = <<turn>>
            /\ (selection # None /\ ~invert) =>
                  /\ HasKey(request, "allowMoves")
                  /\ ~HasKey(request, "avoidMoves")
                  /\ Constraint(request, turn, selection, "allowMoves")
            /\ (selection # None /\ invert) =>
                  /\ HasKey(request, "avoidMoves")
                  /\ ~HasKey(request, "allowMoves")
                  /\ Constraint(request, turn, selection, "avoidMoves")
            /\ selection = None =>
                  /\ ~HasKey(request, "allowMoves")
                  /\ ~HasKey(request, "avoidMoves")

\* C10 amended: as stated for a non-empty selection; a selection that is
\* absent or an empty list carries neither allowMoves nor avoidMoves.
C10_RequestNonEmptySelection ==
    (call.op = "deep_turn_analysis" /\ json_input # None) =>
        LET request   == json_input[1]
            turn      == call.args[1]
            selection == call.args[2]
            invert    == call.args[3]
            given     == selection # None /\ selection[1] # <<>>
        IN  /\ request.analyzeTurns = <<turn>>
            /\ (given /\ ~invert) =>
                  /\ HasKey(request, "allowMoves")
                  /\ ~HasKey(request, "avoidMoves")
                  /\ Constraint(request, turn, selection, "allowMoves")
            /\ (given /\ invert) =>
                  /\ HasKey(request, "avoidMoves")
                  /\ ~HasKey(request, "allowMoves")
                  /\ Constraint(request, turn, selection, "avoidMoves")
            /\ ~given =>
                  /\ ~HasKey(request, "allowMoves")
                  /\ ~HasKey(request, "avoidMoves")

C10_Witness ==
    /\ call.op = "deep_turn_analysis" /\ json_input # None
    /\ call.args[2] # None /\ Len(call.args[2][1]) > 1
    /\ call.args[3]
    /\ HasKey(json_input[1], "avoidMoves")

\* C11: the request of shalow_game_analysis lists each turn index once, in
\* ascending order, carries neither allowMoves nor avoidMoves, and the
\* indices it lists are exactly the turn indices that turn_basic_data reads
\* without the out-of-range ValueError once the pass has returned.
C11_RequestedAreReadable ==
    (call.op = "shalow_game_analysis" /\ raised = "none") =>
        LET request == json_input[1]
            turns   == request.analyzeTurns
        IN  /\ \A i, j \in 1..Len(turns) : i < j => turns[i] < turns[j]
            /\ ~HasKey(request, "allowMoves")
            /\ ~HasKey(request, "avoidMoves")
            /\ \A t \in 0..MaxMoves :
                  (t \in SeqToSet(turns)) <=>
                      (BasicRaised(game_analysis, t) # "ValueError")

AnalysedTurns(ga) == { ga[1][i].turnNumber : i \in 1..Len(ga[1]) }

EntryOfTurn(ga, t) == CHOOSE e \in SeqToSet(ga[1]) : e.turnNumber = t

\* C12: the series game_score_lead returns has one entry per analysed turn,
\* and its i-th entry is the score lead of the analysed turn that has i - 1
\* analysed turns below it.
C12_ScoreLeadSeriesByTurn ==
    (call.op = "game_score_lead" /\ raised = "none") =>
        LET series == returned[1]
            turns  == AnalysedTurns(game_analysis)
        IN  /\ Len(series) = Cardinality(turns)
            /\ \A t \in turns :
                  LET i == Cardinality({ u \in turns : u < t }) + 1
                  IN  series[i] = EntryOfTurn(game_analysis, t).rootInfo.scoreLead

C12_Witness ==
    /\ call.op = "game_score_lead" /\ raised = "none"
    /\ Len(returned[1]) >= 2
    /\ returned[1][1] # returned[1][2]

\* C13: the score-lead series is in the protagonist's perspective: its
\* entry for turn i is the scoreLead turn_basic_data reports for turn i.
C13_SeriesInProtagonistPerspective ==
    (call.op = "game_score_lead" /\ raised = "none") =>
        \A i \in 1..Len(returned[1]) :
            BasicRaised(game_analysis, i - 1) = "none" =>
                returned[1][i] = BasicValue(player, game_analysis, i - 1)[2]

\* C15: an analysis call that returns has stored a result for every turn
\* it requested: the shallow collection has as many entries as the request
\* has turns, and the deep entry is a result of the requested turn.
C15_IncompleteOutputIsAnError ==
    /\ (call.op = "shalow_game_analysis" /\ raised = "none") =>
          Len(game_analysis[1]) = Len(json_input[1].analyzeTurns)
    /\ (call.op = "deep_turn_analysis" /\ raised = "none") =>
          /\ HasKey(turn_analysis[call.args[1]], "turnNumber")
          /\ turn_analysis[call.args[1]].turnNumber = call.args[1]

\* C19: the best move and its score lead returned by turn_basic_data are
\* those of the order-0 candidate of the turn's result, wherever it stands
\* in moveInfos (the score lead negated for protagonist W).
C19_BestMoveIsOrderZero ==
    (call.op = "turn_basic_data" /\ raised = "none") =>
        LET infos == PyGet(game_analysis[1], call.args[1]).moveInfos
        IN  \E k \in 1..Len(infos) :
               /\ infos[k].order = 0
               /\ returned[1][3] = infos[k].move
               /\ returned[1][4] = IF player = "W" THEN -infos[k].scoreLead
                                   ELSE infos[k].scoreLead

C19_Witness ==
    /\ call.op = "turn_basic_data" /\ raised = "none"
    /\ PyGet(game_analysis[1], call.args[1]).moveInfos[1].order # 0
    /\ returned[1][3] # PyGet(game_analysis[1], call.args[1]).moveInfos[1].move

OrderOf(infos, m) ==
    (CHOOSE k \in 1..Len(infos) : infos[k].move = m)

\* C20: the candidates turn_advanced_data returns are in ascending oracle
\* order with the order-0 candidate first, and each principal variation is
\* a prefix of the oracle's pv of at most PV_MAX_LENGTH moves.
C20_AdvancedIsRanked ==
    (call.op = "turn_advanced_data" /\ raised = "none") =>
        LET infos == turn_analysis[call.args[1]].moveInfos
            list  == returned[1]
            rank(i) == infos[OrderOf(infos, list[i].move)].order
            pv(i)   == infos[OrderOf(infos, list[i].move)].pv
        IN  /\ rank(1) = 0
            /\ \A i, j \in 1..Len(list) : i < j => rank(i) < rank(j)
            /\ \A i \in 1..Len(list) :
                  /\ Len(list[i].possibleVariation) <= PV_MAX_LENGTH
                  /\ Len(list[i].possibleVariation) <= Len(pv(i))
                  /\ list[i].possibleVariation =
                        SubSeq(pv(i), 1, Len(list[i].possibleVariation))

\* C16: Analizer(file, player) with a player other than 'B' and 'W' raises
\* ValueError and hands no session to the caller; with 'B' or 'W' it returns
\* a session with that protagonist, game_analysis None and turn_analysis
\* empty; and no later call changes the protagonist of a session.
C16_ConstructionAndProtagonist ==
    [][ /\ (call'.op = "__init__" /\ ~constructed) =>
            IF call'.args[2] \in Colors
            THEN /\ raised' = "none"
                 /\ constructed'
                 /\ player' = call'.args[2]
                 /\ game_analysis' = None
                 /\ turn_analysis' = << >>
            ELSE /\ raised' = "ValueError"
                 /\ ~constructed'
        /\ constructed => (constructed' /\ player' = player) ]_vars

C16_Witness ==
    /\ constructed
    /\ player = "W"
    /\ call.op = "shalow_game_analysis" /\ raised = "none"
    /\ DOMAIN turn_analysis # {}

\* The objects a deep_turn_analysis of the turn can publish: the first
\* parsed object of an oracle output that raised nothing.
CompleteEntries(t, turn) ==
    { output_data(proc)[1] :
        proc \in { p \in DeepProcesses(BaseRequest(t, <<turn>>)) :
                     DeepRaised(t, turn, None, p) = "none" } }

\* C18: while a deep_turn_analysis(t) is in progress the deep store does not
\* change; it changes in one step only, after the oracle's output has been
\* obtained and parsed, and then the entry for t becomes the whole parsed
\* object; so a turn_advanced_data interleaved with the call finds the turn
\* absent, its former entry, or the complete new entry.
C18_ComputeThenPublish ==
    [][ /\ turn_analysis' # turn_analysis =>
            /\ inflight # None
            /\ inflight[1].process # None
            /\ inflight' = None
            /\ turn_analysis' =
                  [k \in DOMAIN turn_analysis \cup {inflight[1].turn} |->
                     IF k = inflight[1].turn
                     THEN output_data(inflight[1].process[1])[1]
                     ELSE turn_analysis[k]]
        /\ (call'.op = "turn_advanced_data" /\ call' # call) =>
            LET turn == call'.args[1]
            IN  IF turn \in DOMAIN turn_analysis
                THEN turn_analysis[turn] \in CompleteEntries(tree, turn)
                ELSE raised' = "ValueError" ]_vars

C18_Witness ==
    /\ inflight # None
    /\ inflight[1].process # None
    /\ call.op = "turn_advanced_data" /\ raised = "none"
    /\ call.args[1] = inflight[1].turn
    /\ turn_analysis[call.args[1]] # output_data(inflight[1].process[1])[1]

\* C17: the session's tree is the one built at construction: no operation
\* of the API classes or of the session changes it.
C17_TreeIsReadOnly ==
    [][ tree' = tree ]_vars

\* C14: when both corners are given, every move deep_turn_area_analysis
\* returns is a coordinate of the selection if invert is false, and none of
\* them is if invert is true.
C14_ReturnedMovesFiltered ==
    ( /\ call.op \in {"API.deep_turn_area_analysis", "API2.deep_turn_area_analysis"}
      /\ raised = "none"
      /\ call.args[2] # None /\ call.args[3] # None ) =>
        LET selection == SeqToSet(AreaSelection(tree, call.args[2], call.args[3])[1])
            moves     == { returned[1][i].move : i \in 1..Len(returned[1]) }
        IN  IF call.args[4]
            THEN moves \cap selection = {}
            ELSE moves \subseteq selection

\* C21: once a shallow pass has succeeded, turn_basic_data with a negative
\* turn raises the out-of-range ValueError and returns no data.
C21_NegativeTurnIsRangeError ==
    (call.op = "turn_basic_data" /\ game_analysis # None /\ call.args[1] < 0)
        => (raised = "ValueError" /\ returned = None)

\* C22: a deep_turn_analysis that returns leaves the shallow collection as
\* it was, and a shalow_game_analysis that returns leaves every entry of the
\* deep-result store as it was, so that turn_advanced_data gives afterwards
\* what it gave before.
C22_StoresIndependent ==
    [][ /\ (call'.op = "deep_turn_analysis" /\ raised' = "none") =>
            game_analysis' = game_analysis
        /\ (call'.op = "shalow_game_analysis" /\ raised' = "none") =>
            /\ turn_analysis' = turn_analysis
            /\ \A turn \in DeepTurns :
                  /\ AdvancedRaised(turn_analysis', turn) =
                        AdvancedRaised(turn_analysis, turn)
                  /\ AdvancedRaised(turn_analysis, turn) = "none" =>
                        AdvancedValue(player', turn_analysis', turn) =
                           AdvancedValue(player, turn_analysis, turn) ]_vars

C22_Witness ==
    /\ call.op = "shalow_game_analysis" /\ raised = "none"
    /\ game_analysis[1] # << >>
    /\ \E turn \in DeepTurns : AdvancedRaised(turn_analysis, turn) = "none"

\* C23: the next player turn_basic_data returns is the currentPlayer of the
\* turn's rootInfo, whatever the protagonist.
C23_NextPlayerIsCurrentPlayer ==
    (call.op = "turn_basic_data" /\ raised = "none") =>
        returned[1][5] =
            PyGet(game_analysis[1], call.args[1]).rootInfo.currentPlayer

====
